---- MODULE Spec2Model ----
(***************************************************************************)
(* AngularRethinkDBObservable<T> (RethinkDBObservable.ts): a BehaviorSubject *)
(* of T[] that folds the change messages of a socket.io channel into its     *)
(* current value and offers push / remove / update over fetch.               *)
(*                                                                           *)
(* The class extends rxjs 5 BehaviorSubject; the inherited fields (_value,   *)
(* hasError, thrownError, closed, observers) are state of the object and are *)
(* modelled at the places where the class calls into them (this.value,       *)
(* this.next, this.error, super._subscribe, super.unsubscribe).              *)
(***************************************************************************)
EXTENDS Naturals, Sequences, FiniteSets, Bags

(* ------------------------------ bounds --------------------------------- *)
\* number of operations (calls, arriving messages, settled promises) in a run
MaxOps == 6

(* ------------------------------ values --------------------------------- *)
\* an entity T extends IRethinkObject: an id and an opaque payload
Ent(id, v) == [id |-> id, v |-> v]
Entities == {Ent("a", "v1"), Ent("a", "v2"), Ent("b", "v1")}
\* a field that is missing from a parsed message (!x is true)
Absent == Ent("", "")
Has(x) == x # Absent

\* err strings; "" is the missing / falsy err
Errs == {"e1", "e2"}
NoErr == ""

\* parsed change messages {new_val, old_val, err?}; the handler reads old_val.id only
Msgs == [old_val : {Absent, Ent("a", "v1"), Ent("b", "v1")},
         new_val : Entities \cup {Absent},
         err : {NoErr, "e1"}]

\* IRethinkDBQuery values: carried by query$, passed to update, built by remove
Query(index, v) == [index |-> index, value |-> v]
UndefinedQuery == Query("", "")
Queries == {Query("id", "a"), Query("email", "a@b.com")}

ObjectUnsubscribedError == "object unsubscribed"
ClosedError == "AngularRethinkDB has been closed."
TypeError == "TypeError: Cannot read property 'disconnect' of undefined"

\* notifications an observer receives
NextN(v) == [err |-> NoErr, value |-> v, kind |-> "next"]
ErrorN(e) == [err |-> e, value |-> <<>>, kind |-> "error"]

\* rethinkdbConfig and table, fixed at construction
Database == "your-db"
ApiKey == "AAAA-BBBBB-CCCCC"
Table == "myTable"

\* what goes out on the network: a register message on socket `sock`, or a fetch
\* to an endpoint (sock 0)
Wire(channel, sock, object, q) ==
    [channel |-> channel, sock |-> sock, object |-> object, db |-> Database,
     table |-> Table, api_key |-> ApiKey, query |-> q]

VARIABLES
    value,        \* BehaviorSubject._value : the current snapshot (Seq of entities)
    hasError,     \* Subject.hasError
    thrownError,  \* Subject.thrownError
    closed,       \* Subject.closed
    observers,    \* Subject.observers : Seq of observer ids, in subscription order
    socket,       \* this.socket : 0 while undefined, else the socket created last
    sockets,      \* every socket io() created: sockets[k] = TRUE while connected
    chains,       \* the Observable chain started by the k-th _subscribe
    hasQuery,     \* whether the optional query$ was given to the constructor
    query,        \* the current value of query$
    pending,      \* ack callbacks of register messages: bag of [chain, sock]
    inflight,     \* fetch promises not yet settled
    step,         \* the operation that ran last, with the message it was given
    result,       \* what that operation returned or threw
    delivered,    \* the notifications it made: set of [to, n]
    sent,         \* what it put on the network: set of Wire records
    ops           \* how many operations have run

subject == <<value, hasError, thrownError, closed, observers>>
conn == <<socket, sockets, chains, pending>>
vars == <<value, hasError, thrownError, closed, observers, socket, sockets, chains,
          hasQuery, query, pending, inflight, step, result, delivered, sent, ops>>

Range(s) == {s[i] : i \in 1..Len(s)}

\* a message without any field
NoMsg == [old_val |-> Absent, new_val |-> Absent, err |-> NoErr]
Step(op, data) == [op |-> op, data |-> data]
Ok == [err |-> NoErr, kind |-> "ok"]
Thrown(e) == [err |-> e, kind |-> "throw"]

\* every operation counts towards the length of the run
Tick == ops < MaxOps /\ ops' = ops + 1

Init ==
    /\ value = <<>>
    /\ hasError = FALSE
    /\ thrownError = NoErr
    /\ closed = FALSE
    /\ observers = <<>>
    /\ socket = 0
    /\ sockets = <<>>
    /\ chains = <<>>
    /\ hasQuery \in BOOLEAN
    /\ query \in (IF hasQuery THEN Queries ELSE {UndefinedQuery})
    /\ pending = EmptyBag
    /\ inflight = 0
    /\ step = Step("new", NoMsg)
    /\ result = Ok
    /\ delivered = {}
    /\ sent = {}
    /\ ops = 0

(* ------------------- socketDataHandler (lines 40-73) -------------------- *)
\* db.filter(object => object.id !== id)
FilterOut(db, id) == SelectSeq(db, LAMBDA object : object.id # id)

\* db.filter(object => object.id === data.new_val.id).length > 0
Exists(db, id) == \E i \in 1..Len(db) : db[i].id = id

\* the new entity put last instead of first
NewData_Appended(db, data) == db \o <<data.new_val>>

\* the snapshot replaced by the new entity alone
NewData_Replaced(db, data) == <<data.new_val>>

\* line 56: [data.new_val, ...db]
NewData(db, data) == <<data.new_val>> \o db

\* the new entity put first instead of last
UpdateData_Prepended(db, data) == <<data.new_val>> \o FilterOut(db, data.old_val.id)

\* lines 60-63: [...db.filter(object => object.id !== data.old_val.id), data.new_val]
UpdateData(db, data) == FilterOut(db, data.old_val.id) \o <<data.new_val>>

\* === in place of !== : keeps the removed entity and drops the others
DeleteData_Kept(db, data) == SelectSeq(db, LAMBDA object : object.id = data.old_val.id)

\* lines 68-70: [...db.filter(object => object.id !== data.old_val.id)]
DeleteData(db, data) == FilterOut(db, data.old_val.id)

\* what the if / else-if ladder of lines 47-72 does with the parsed message:
\* "next" (this.next), "error" (this.error) or "none" (no branch taken)
\* the clear test without its db.length test
Reconcile_AlwaysClear(db, data) ==
    IF ~Has(data.old_val) /\ ~Has(data.new_val) THEN [err |-> "", value |-> <<>>, kind |-> "next"]
    ELSE IF data.err # NoErr THEN [err |-> data.err, value |-> <<>>, kind |-> "error"]
    ELSE IF ~Has(data.old_val) /\ Has(data.new_val)
        THEN [err |-> "", value |-> <<data.new_val>> \o db, kind |-> "next"]
    ELSE IF Has(data.old_val) /\ Has(data.new_val) /\ Exists(db, data.new_val.id)
        THEN [err |-> "", value |-> Append(FilterOut(db, data.old_val.id), data.new_val), kind |-> "next"]
    ELSE IF Has(data.old_val) /\ ~Has(data.new_val)
        THEN [err |-> "", value |-> FilterOut(db, data.old_val.id), kind |-> "next"]
    ELSE [err |-> "", value |-> <<>>, kind |-> "none"]

\* the err test placed ahead of the clear test
Reconcile_ErrFirst(db, data) ==
    IF data.err # NoErr THEN [err |-> data.err, value |-> <<>>, kind |-> "error"]
    ELSE IF ~Has(data.old_val) /\ ~Has(data.new_val) /\ Len(db) > 0
        THEN [err |-> "", value |-> <<>>, kind |-> "next"]
    ELSE IF ~Has(data.old_val) /\ Has(data.new_val)
        THEN [err |-> "", value |-> <<data.new_val>> \o db, kind |-> "next"]
    ELSE IF Has(data.old_val) /\ Has(data.new_val) /\ Exists(db, data.new_val.id)
        THEN [err |-> "", value |-> Append(FilterOut(db, data.old_val.id), data.new_val), kind |-> "next"]
    ELSE IF Has(data.old_val) /\ ~Has(data.new_val)
        THEN [err |-> "", value |-> FilterOut(db, data.old_val.id), kind |-> "next"]
    ELSE [err |-> "", value |-> <<>>, kind |-> "none"]

NextE(v) == [err |-> NoErr, value |-> v, kind |-> "next"]
ErrorE(e) == [err |-> e, value |-> <<>>, kind |-> "error"]
NoneE == [err |-> NoErr, value |-> <<>>, kind |-> "none"]

Reconcile(db, data) ==
    IF ~Has(data.old_val) /\ ~Has(data.new_val) /\ Len(db) > 0 THEN NextE(<<>>)
    ELSE IF data.err # NoErr THEN ErrorE(data.err)
    ELSE IF ~Has(data.old_val) /\ Has(data.new_val) THEN NextE(NewData(db, data))
    ELSE IF Has(data.old_val) /\ Has(data.new_val) /\ Exists(db, data.new_val.id)
        THEN NextE(UpdateData(db, data))
    ELSE IF Has(data.old_val) /\ ~Has(data.new_val) THEN NextE(DeleteData(db, data))
    ELSE NoneE

\* BehaviorSubject value getter (line 44, this.value): throws the recorded error,
\* or ObjectUnsubscribedError once closed, before the ladder is entered
ValueThrows == IF hasError THEN thrownError ELSE IF closed THEN ObjectUnsubscribedError ELSE NoErr

\* Subject.next delivers the value to every observer
Publish(obs, v) == {[to |-> o, n |-> NextN(v)] : o \in Range(obs)}

\* Subject.error delivers the error to every observer
PublishError(obs, e) == {[to |-> o, n |-> ErrorN(e)] : o \in Range(obs)}

\* the message `data` arrives on a connected socket; every socket has this handler
socketDataHandler(data) ==
    /\ Tick
    /\ \E k \in 1..Len(sockets) : sockets[k]
    /\ step' = Step("event", data)
    /\ sent' = {}
    /\ UNCHANGED <<conn, hasQuery, query, inflight, closed>>
    /\ IF ValueThrows # NoErr
       THEN /\ result' = Thrown(ValueThrows)
            /\ delivered' = {}
            /\ UNCHANGED <<value, hasError, thrownError, observers>>
       ELSE LET e == Reconcile(value, data) IN
            /\ result' = Ok
            /\ CASE e.kind = "next" ->
                      /\ value' = e.value
                      /\ delivered' = Publish(observers, e.value)
                      /\ UNCHANGED <<hasError, thrownError, observers>>
                 [] e.kind = "error" ->
                      /\ hasError' = TRUE
                      /\ thrownError' = e.err
                      /\ delivered' = PublishError(observers, e.err)
                      /\ observers' = <<>>
                      /\ UNCHANGED value
                 [] OTHER ->
                      /\ delivered' = {}
                      /\ UNCHANGED <<value, hasError, thrownError, observers>>

(* ------------------------ register (lines 83-98) ------------------------ *)
\* socket.emit('register', JSON.stringify([dbApiConfig, {table, query}]), ack)
register(s, q) == Wire("register", s, Absent, q)

\* the ack callback that waits for the response, owned by chain c
Ack(c, s) == [sock |-> s, chain |-> c]

(* ----------------------- _subscribe (lines 227-245) --------------------- *)
\* a plain Subject in place of the BehaviorSubject: no value is replayed
Replay_Nothing == IF hasError THEN {ErrorN(thrownError)} ELSE {}

\* BehaviorSubject._subscribe (line 244): what the new subscriber is given
Replay == IF hasError THEN {ErrorN(thrownError)} ELSE {NextN(value)}

_subscribe ==
    /\ Tick
    /\ LET k == Len(sockets) + 1 IN
       /\ step' = Step("subscribe", NoMsg)
       \* lines 231-232: a new socket, with one handler for this.table
       /\ socket' = k
       /\ sockets' = Append(sockets, TRUE)
       \* lines 237-242: query$ (a BehaviorSubject) emits its current value at once,
       \* Observable.of(undefined) otherwise; the register message follows
       /\ chains' = Append(chains, "subscribed")
       /\ sent' = {register(k, query)}
       /\ pending' = pending (+) SetToBag({Ack(k, k)})
       \* line 244: super._subscribe(subscriber)
       /\ IF closed
          THEN /\ result' = Thrown(ObjectUnsubscribedError)
               /\ delivered' = {}
               /\ UNCHANGED observers
          ELSE /\ result' = Ok
               /\ delivered' = {[to |-> k, n |-> n] : n \in Replay}
               /\ observers' = IF hasError THEN observers ELSE Append(observers, k)
    /\ UNCHANGED <<value, hasError, thrownError, closed, hasQuery, query, inflight>>

\* rxjs from 5.5 on: Subject._trySubscribe throws once closed, before the
\* overridden _subscribe is entered
SubscribeRefused ==
    /\ Tick
    /\ closed
    /\ step' = Step("subscribe", NoMsg)
    /\ result' = Thrown(ObjectUnsubscribedError)
    /\ delivered' = {}
    /\ sent' = {}
    /\ UNCHANGED <<subject, conn, hasQuery, query, inflight>>

\* the handle returned at line 244 is unsubscribed: the observer leaves the list
ObserverUnsubscribe(k) ==
    /\ Tick
    /\ k \in Range(observers)
    /\ observers' = SelectSeq(observers, LAMBDA o : o # k)
    /\ step' = Step("handle.unsubscribe", NoMsg)
    /\ result' = Ok
    /\ delivered' = {}
    /\ sent' = {}
    /\ UNCHANGED <<value, hasError, thrownError, closed, conn, hasQuery, query, inflight>>

\* query$.next(q): every chain still subscribed to query$ maps it to a register
\* call on this.socket (line 240 reads this.socket when the value arrives); a
\* socket the client disconnected buffers the packet and never sends it
QueryNext(q) ==
    /\ Tick
    /\ hasQuery
    /\ q \in Queries
    /\ LET alive == {c \in 1..Len(chains) : chains[c] = "subscribed"}
           up == socket # 0 /\ sockets[socket] /\ alive # {}
       IN /\ pending' = IF up THEN pending (+) SetToBag({Ack(c, socket) : c \in alive}) ELSE pending
          /\ sent' = IF up THEN {register(socket, q)} ELSE {}
    /\ query' = q
    /\ step' = Step("query", NoMsg)
    /\ result' = Ok
    /\ delivered' = {}
    /\ UNCHANGED <<subject, socket, sockets, chains, hasQuery, inflight>>

\* the ack callback of lines 87-95 runs with the response {err, msj}
RegisterAck(h, err) ==
    /\ Tick
    /\ h \in BagToSet(pending)
    /\ sockets[h.sock]
    /\ pending' = pending (-) SetToBag({h})
    /\ step' = Step("ack", [NoMsg EXCEPT !.err = err])
    /\ delivered' = {}
    /\ sent' = {}
    /\ IF chains[h.chain] = "subscribed" /\ err # NoErr
       \* o.error(res.err) reaches the handler-less subscribe() of line 242, which
       \* unsubscribes the chain and rethrows the error
       THEN /\ chains' = [chains EXCEPT ![h.chain] = "errored"]
            /\ result' = Thrown(err)
       ELSE /\ chains' = IF chains[h.chain] = "subscribed" /\ ~hasQuery
                         THEN [chains EXCEPT ![h.chain] = "completed"]
                         ELSE chains
            /\ result' = Ok
    /\ UNCHANGED <<subject, socket, sockets, hasQuery, query, inflight>>

(* ----------------------- unsubscribe (lines 250-253) -------------------- *)
unsubscribe ==
    /\ Tick
    /\ step' = Step("unsubscribe", NoMsg)
    /\ delivered' = {}
    /\ sent' = {}
    /\ IF socket = 0
       \* this.socket is undefined: line 251 throws and line 252 is not reached
       THEN /\ result' = Thrown(TypeError)
            /\ UNCHANGED <<subject, conn>>
       ELSE /\ result' = Ok
            /\ sockets' = [sockets EXCEPT ![socket] = FALSE]
            /\ pending' = [h \in {x \in DOMAIN pending : x.sock # socket} |-> pending[h]]
            /\ closed' = TRUE
            /\ observers' = <<>>
            /\ UNCHANGED <<value, hasError, thrownError, socket, chains>>
    /\ UNCHANGED <<hasQuery, query, inflight>>

(* ------------------ push / remove / update (lines 106-221) -------------- *)
\* the index argument of remove: a string, or {indexName, indexValue}
StringIndex(x) == [type |-> "string", str |-> x, indexName |-> "", indexValue |-> ""]
ObjectIndex(n, x) == [type |-> "object", str |-> "", indexName |-> n, indexValue |-> x]
Indexes == {StringIndex("x"), ObjectIndex("email", "a@b.com")}

\* the check without its `else if (this.closed)` arm
Rejection_ClosedIgnored == IF hasError THEN thrownError ELSE NoErr

\* lines 107-113, 143-149, 193-199: the check every command starts with
Rejection == IF hasError THEN thrownError ELSE IF closed THEN ClosedError ELSE NoErr

\* the string arm taken for every index
RemoveQuery_AlwaysId(index) == Query("id", index.str)

\* lines 152-167: the query of the delete request
RemoveQuery(index) ==
    IF index.type = "string"
    THEN Query("id", index.str)
    ELSE Query(index.indexName, index.indexValue)

\* a command: Observable.throw when rejected, else fetch is called at once
Command(op, req) ==
    /\ Tick
    /\ step' = Step(op, NoMsg)
    /\ delivered' = {}
    /\ IF Rejection # NoErr
       THEN /\ result' = Thrown(Rejection)
            /\ sent' = {}
            /\ UNCHANGED inflight
       ELSE /\ result' = [err |-> NoErr, kind |-> "fetch"]
            /\ sent' = {req}
            /\ inflight' = inflight + 1
    /\ UNCHANGED <<subject, conn, hasQuery, query>>

\* a push that also puts the object into the snapshot, ahead of the change feed
push_Reconciled(newObject) ==
    /\ Tick
    /\ Rejection = NoErr
    /\ step' = Step("push", NoMsg)
    /\ result' = [err |-> NoErr, kind |-> "fetch"]
    /\ sent' = {Wire("/api/put", 0, newObject, UndefinedQuery)}
    /\ inflight' = inflight + 1
    /\ value' = <<newObject>> \o value
    /\ delivered' = Publish(observers, value')
    /\ UNCHANGED <<hasError, thrownError, closed, observers, conn, hasQuery, query>>

push(newObject) == Command("push", Wire("/api/put", 0, newObject, UndefinedQuery))

remove(index) == Command("remove", Wire("/api/delete", 0, Absent, RemoveQuery(index)))

update(updatedObj, q) == Command("update", Wire("/api/update", 0, updatedObj, q))

\* a fetch promise settles: the decoded json, or a transport failure
Response(failed) ==
    /\ Tick
    /\ inflight > 0
    /\ inflight' = inflight - 1
    /\ step' = Step("response", NoMsg)
    /\ result' = IF failed THEN [err |-> NoErr, kind |-> "reject"] ELSE [err |-> NoErr, kind |-> "json"]
    /\ delivered' = {}
    /\ sent' = {}
    /\ UNCHANGED <<subject, conn, hasQuery, query>>

(* ------------------------------ behaviours ------------------------------ *)
PushObjects == {Ent("a", "v1")}
UpdateObjects == {Ent("a", "v2")}

Next ==
    \/ _subscribe
    \/ SubscribeRefused
    \/ \E k \in Range(observers) : ObserverUnsubscribe(k)
    \/ \E data \in Msgs : socketDataHandler(data)
    \/ \E q \in Queries : QueryNext(q)
    \/ \E h \in BagToSet(pending), err \in Errs \cup {NoErr} : RegisterAck(h, err)
    \/ unsubscribe
    \/ \E o \in PushObjects : push(o)
    \/ \E i \in Indexes : remove(i)
    \/ \E o \in UpdateObjects, q \in {UndefinedQuery, Query("id", "a")} : update(o, q)
    \/ \E failed \in BOOLEAN : Response(failed)


Spec == Init /\ [][Next]_vars

(* ------------------------------ properties ------------------------------ *)
Live == ~hasError /\ ~closed
Commands == {"push", "remove", "update"}

\* the four shapes of a change message that carries no err
IsInserted(d) == ~Has(d.old_val) /\ Has(d.new_val) /\ d.err = NoErr
IsUpdated(d) == Has(d.old_val) /\ Has(d.new_val) /\ d.err = NoErr
IsRemoved(d) == Has(d.old_val) /\ ~Has(d.new_val) /\ d.err = NoErr
IsCleared(d) == ~Has(d.old_val) /\ ~Has(d.new_val) /\ d.err = NoErr

\* the entities of s whose id differs from id, in their order
RECURSIVE Drop(_, _)
Drop(s, id) ==
    IF s = <<>> THEN <<>>
    ELSE IF Head(s).id = id THEN Drop(Tail(s), id)
    ELSE <<Head(s)>> \o Drop(Tail(s), id)

HasId(s, id) == \E i \in 1..Len(s) : s[i].id = id

\* every current observer is handed notification n, and nobody else anything
ToAll(obs, n) == {[to |-> o, n |-> n] : o \in Range(obs)}

\* C1: in every reachable state no two entities of the snapshot share an id
C1_NoDuplicateIds ==
    \A i, j \in 1..Len(value) : i # j => value[i].id # value[j].id

\* C2: a change message carrying err, handled in a live collection, puts the
\* collection in the terminal error state and hands the error to every current
\* observer; from then on no change message changes the snapshot and every new
\* subscriber is handed the error
C2_FailedIsTerminal ==
    [][ /\ (step'.op = "event" /\ step'.data.err # NoErr /\ Live)
            => /\ hasError'
               /\ thrownError' = step'.data.err
               /\ delivered' = ToAll(observers, ErrorN(step'.data.err))
        /\ (step'.op = "event" /\ hasError) => value' = value
        /\ (step'.op = "subscribe" /\ hasError /\ ~closed)
            => delivered' = {[to |-> Len(sockets'), n |-> ErrorN(thrownError)]}
      ]_vars

\* C3: a register ack carrying err, arriving in a live collection, puts the
\* collection in the terminal error state and hands the error to every current
\* observer
C3_RejectedHandshakeIsTerminal ==
    [][ (step'.op = "ack" /\ step'.data.err # NoErr /\ Live)
            => /\ hasError'
               /\ thrownError' = step'.data.err
               /\ delivered' = ToAll(observers, ErrorN(step'.data.err))
      ]_vars

\* C4 as claimed: Updated(old, new) on a snapshot holding new.id gives [new]
\* followed by the entities whose id differs from old.id; without new.id the
\* snapshot is unchanged and nothing is published
C4_UpdatedPrepends ==
    [][ (step'.op = "event" /\ IsUpdated(step'.data) /\ Live)
            => IF HasId(value, step'.data.new_val.id)
               THEN value' = <<step'.data.new_val>> \o Drop(value, step'.data.old_val.id)
               ELSE value' = value /\ delivered' = {}
      ]_vars

\* C4 as amended: Updated(old, new) on a snapshot holding new.id gives the
\* entities whose id differs from old.id, in their order, followed by new, and
\* that snapshot is published; without new.id the snapshot is unchanged and
\* nothing is published
C4_UpdatedAppends ==
    [][ (step'.op = "event" /\ IsUpdated(step'.data) /\ Live)
            => IF HasId(value, step'.data.new_val.id)
               THEN /\ value' = Drop(value, step'.data.old_val.id) \o <<step'.data.new_val>>
                    /\ delivered' = ToAll(observers, NextN(value'))
               ELSE value' = value /\ delivered' = {}
      ]_vars

\* an Updated message was folded and published: the new entity stands last,
\* behind an entity with another id
C4_Witness ==
    /\ step.op = "event" /\ IsUpdated(step.data) /\ result = Ok
    /\ Len(value) >= 2
    /\ value[Len(value)] = step.data.new_val
    /\ value[1].id # step.data.new_val.id
    /\ delivered = ToAll(observers, NextN(value))
    /\ observers # <<>>

\* C5: Inserted(v) handled in a live collection gives [v] followed by the
\* entities of the snapshot in their order, and that snapshot is published
C5_InsertedPrepends ==
    [][ (step'.op = "event" /\ IsInserted(step'.data) /\ Live)
            => /\ value' = <<step'.data.new_val>> \o value
               /\ delivered' = ToAll(observers, NextN(value'))
      ]_vars

\* an Inserted message was folded into a non-empty snapshot and published
C5_Witness ==
    /\ step.op = "event" /\ IsInserted(step.data) /\ result = Ok
    /\ Len(value) >= 2
    /\ value[1] = step.data.new_val
    /\ value[2].id # value[1].id
    /\ delivered = ToAll(observers, NextN(value))
    /\ observers # <<>>

\* C6: Removed(old) handled in a live collection gives exactly the entities
\* whose id differs from old.id, in their order
C6_RemovedFilters ==
    [][ (step'.op = "event" /\ IsRemoved(step'.data) /\ Live)
            => value' = Drop(value, step'.data.old_val.id)
      ]_vars

\* a Removed message was folded and an entity with another id is still there
C6_Witness ==
    /\ step.op = "event" /\ IsRemoved(step.data) /\ result = Ok
    /\ Len(value) >= 1
    /\ ~HasId(value, step.data.old_val.id)
    /\ ops >= 4
    /\ delivered = ToAll(observers, NextN(value))
    /\ observers # <<>>

\* C7 as claimed: once closed, a command makes no network call and its result
\* is the 'closed' error
C7_ClosedCommandsGetClosedError ==
    [][ (closed /\ step'.op \in Commands)
            => /\ sent' = {} /\ inflight' = inflight
               /\ result' = Thrown(ClosedError)
      ]_vars

\* C7 as amended: once closed, a command makes no network call; its result is
\* the recorded error when a terminal error was recorded before, and the
\* 'closed' error otherwise
C7_ClosedCommandsFailFast ==
    [][ (closed /\ step'.op \in Commands)
            => /\ sent' = {} /\ inflight' = inflight
               /\ result' = Thrown(IF hasError THEN thrownError ELSE ClosedError)
      ]_vars

\* a command was called on a closed collection and got the 'closed' error
C7_Witness ==
    /\ closed /\ ~hasError
    /\ step.op \in Commands
    /\ result = Thrown(ClosedError)
    /\ sent = {}

\* C8: once a Failed change message or a rejected handshake has happened, a
\* command makes no network call and its result is a failure carrying an error
C8_ErroredCommandsFailFast ==
    [][ ((hasError \/ \E c \in 1..Len(chains) : chains[c] = "errored") /\ ~closed
          /\ step'.op \in Commands)
            => /\ sent' = {} /\ inflight' = inflight
               /\ result'.kind = "throw" /\ result'.err \in Errs
      ]_vars

\* C9: a subscribe call after the first, on a live collection, opens no socket
\* and sends no register message
C9_SubscribeReusesConnection ==
    [][ (step'.op = "subscribe" /\ Live /\ Len(sockets) >= 1)
            => /\ sockets' = sockets /\ socket' = socket
               /\ sent' = {} /\ pending' = pending
      ]_vars

\* C10: subscribing to a live collection hands the new observer the current
\* snapshot, once, and nothing else; the snapshot is not changed by it
C10_ReplayLatest ==
    [][ (step'.op = "subscribe" /\ Live)
            => /\ delivered' = {[to |-> Len(sockets'), n |-> NextN(value)]}
               /\ value' = value
               /\ observers' = Append(observers, Len(sockets'))
      ]_vars

\* a second observer subscribed after a non-empty snapshot was published
C10_Witness ==
    /\ step.op = "subscribe" /\ Live
    /\ Len(sockets) = 2
    /\ value # <<>>
    /\ delivered = {[to |-> 2, n |-> NextN(value)]}
    /\ observers = <<1, 2>>

\* C11: when the last observer unsubscribes its handle every socket is
\* disconnected and the collection is closed; while another observer remains,
\* an observer's unsubscription leaves the sockets and the closed flag alone and
\* the others stay subscribed
C11_LastUnsubscribeCloses ==
    [][ (step'.op = "handle.unsubscribe")
            => IF Len(observers) = 1
               THEN closed' /\ \A k \in 1..Len(sockets') : ~sockets'[k]
               ELSE /\ sockets' = sockets /\ closed' = closed
                    /\ Range(observers') \subseteq Range(observers)
                    /\ Cardinality(Range(observers')) = Cardinality(Range(observers)) - 1
      ]_vars

\* C12: once the collection was closed by unsubscribe(), no operation puts a
\* register message on the network and no operation changes the snapshot
C12_NothingAfterClose ==
    [][ closed => /\ \A w \in sent' : w.channel # "register"
                  /\ value' = value
      ]_vars

\* C13: while an observer is subscribed and the collection is not closed, a new
\* value of query$ puts a register message carrying {table, query: that value}
\* on this.socket
C13_QueryReissuesHandshake ==
    [][ (step'.op = "query" /\ ~closed /\ observers # <<>>)
            => sent' = {[channel |-> "register", sock |-> socket, object |-> Absent,
                         db |-> Database, table |-> Table, api_key |-> ApiKey,
                         query |-> query']}
      ]_vars

\* C14: a command, and the settling of its fetch, leave the snapshot, the error
\* and closed flags, the observers and the connection as they were and notify
\* nobody; the snapshot changes only in a step that handles a change message
C14_CommandsLeaveFeedAlone ==
    [][ /\ (step'.op \in Commands \cup {"response"})
            => /\ value' = value /\ hasError' = hasError /\ thrownError' = thrownError
               /\ closed' = closed /\ observers' = observers
               /\ socket' = socket /\ sockets' = sockets
               /\ chains' = chains /\ pending' = pending
               /\ delivered' = {}
        /\ (value' # value) => step'.op = "event"
      ]_vars

\* a fetch settled on a live collection that holds a snapshot and an observer
C14_Witness ==
    /\ step.op = "response" /\ result.kind = "reject"
    /\ Live
    /\ value # <<>>
    /\ observers # <<>>

\* C15: remove on a live collection sends one delete request carrying db, table
\* and api_key; its query is {index: "id", value: x} for a string x and
\* {index: n, value: v} for {indexName: n, indexValue: v}
C15_RemoveQuery ==
    [][ \A i \in Indexes : (Live /\ remove(i))
            => sent' = {[channel |-> "/api/delete", sock |-> 0, object |-> Absent,
                         db |-> "your-db", table |-> "myTable",
                         api_key |-> "AAAA-BBBBB-CCCCC",
                         query |-> IF i.type = "string"
                                   THEN [index |-> "id", value |-> i.str]
                                   ELSE [index |-> i.indexName, value |-> i.indexValue]]}
      ]_vars

\* remove({indexName: "email", indexValue: "a@b.com"}) was called on a live collection
C15_Witness ==
    /\ step.op = "remove" /\ result.kind = "fetch"
    /\ Live
    /\ \E w \in sent : w.channel = "/api/delete" /\ w.query = [index |-> "email", value |-> "a@b.com"]

\* the snapshot after the handler has folded message data into snapshot db
Fold(db, data) == LET e == Reconcile(db, data) IN IF e.kind = "next" THEN e.value ELSE db

\* the Removed message for entity v
Removed(v) == [old_val |-> v, new_val |-> Absent, err |-> NoErr]

\* C16 as stated: on a live collection, after Inserted(v) is handled, handling
\* Removed(v) next gives back the snapshot held before the insertion
C16_InsertRemoveRoundTrip ==
    [][ (step'.op = "event" /\ IsInserted(step'.data) /\ Live)
            => Fold(value', Removed(step'.data.new_val)) = value ]_vars

\* C16, amended: the round trip gives back the snapshot provided the snapshot
\* held no entity with the id of v before the insertion
C16_InsertRemoveRoundTripFreshId ==
    [][ (step'.op = "event" /\ IsInserted(step'.data) /\ Live
         /\ ~HasId(value, step'.data.new_val.id))
            => Fold(value', Removed(step'.data.new_val)) = value ]_vars

\* Inserted(v) was handled on a non-empty snapshot that did not hold the id of v
C16_Witness ==
    /\ step.op = "event" /\ IsInserted(step.data) /\ Live
    /\ Len(value) >= 2
    /\ Head(value) = step.data.new_val
    /\ ~HasId(Tail(value), step.data.new_val.id)

\* C17: a Cleared message handled on a live collection leaves the snapshot
\* empty, so a second Cleared changes nothing; it publishes the empty snapshot
\* to every observer when the snapshot was non-empty and nothing when it was empty
C17_ClearedIdempotent ==
    [][ (step'.op = "event" /\ IsCleared(step'.data) /\ Live)
            => /\ value' = <<>>
               /\ Fold(value', step'.data) = value'
               /\ (value = <<>>) => /\ delivered' = {}
                                    /\ Reconcile(value, step'.data).kind = "none"
               /\ (value # <<>>) => delivered' = ToAll(observers, NextN(<<>>))
      ]_vars

\* a Cleared message was handled on an empty snapshot with an observer subscribed
C17_Witness ==
    /\ step.op = "event" /\ IsCleared(step.data) /\ Live
    /\ result = Ok
    /\ observers # <<>>
    /\ value = <<>>
    /\ delivered = {}

\* the ids a change message concerns
IdsOf(d) == {x.id : x \in {y \in {d.old_val, d.new_val} : Has(y)}}

\* the Inserted, Updated and Removed messages that concern other ids than d does
Independent(d) ==
    {e \in Msgs : /\ IsInserted(e) \/ IsUpdated(e) \/ IsRemoved(e)
                  /\ IdsOf(e) \cap IdsOf(d) = {}}

\* s and t hold the same entities, each as many times
SameEntities(s, t) ==
    \A v \in Range(s) \cup Range(t) :
        Cardinality({i \in 1..Len(s) : s[i] = v}) = Cardinality({i \in 1..Len(t) : t[i] = v})

\* C18 as stated: handling two messages about disjoint ids gives the same
\* snapshot, entity for entity in the same order, in either order of arrival
C18_IndependentEventsCommute ==
    [][ (step'.op = "event" /\ Live
         /\ (IsInserted(step'.data) \/ IsUpdated(step'.data) \/ IsRemoved(step'.data)))
            => \A e \in Independent(step'.data) :
                   Fold(value', e) = Fold(Fold(value, e), step'.data) ]_vars

\* C18, amended: handling two Inserted, Updated or Removed messages about
\* disjoint ids gives, in either order of arrival, snapshots that hold the same
\* entities, though not always in the same order
C18_IndependentEventsSameEntities ==
    [][ (step'.op = "event" /\ Live
         /\ (IsInserted(step'.data) \/ IsUpdated(step'.data) \/ IsRemoved(step'.data)))
            => \A e \in Independent(step'.data) :
                   SameEntities(Fold(value', e), Fold(Fold(value, e), step'.data)) ]_vars

\* Inserted(v) was handled, and an independent insertion handled before it
\* instead of after it would leave the two entities in the other order
C18_Witness ==
    /\ step.op = "event" /\ IsInserted(step.data) /\ Live
    /\ value # <<>> /\ Head(value) = step.data.new_val
    /\ \E e \in Independent(step.data) :
           /\ IsInserted(e)
           /\ Fold(value, e) # Fold(Fold(Tail(value), e), step.data)
           /\ SameEntities(Fold(value, e), Fold(Fold(Tail(value), e), step.data))

\* no query$ is in use, and the register call of every subscription is either
\* still waiting for its acknowledgement or was acknowledged with err
NoHandshakeSucceeded ==
    /\ ~hasQuery
    /\ chains # <<>>
    /\ \A c \in 1..Len(chains) :
           \/ chains[c] = "errored"
           \/ chains[c] = "subscribed" /\ BagIn(Ack(c, c), pending)

\* C19: a change message handled while no registration handshake has succeeded
\* leaves the snapshot as it was
C19_NoFoldBeforeHandshake ==
    [][ (step'.op = "event" /\ NoHandshakeSucceeded) => value' = value ]_vars

\* C20: on a live collection with a non-empty snapshot a message with neither
\* old_val nor new_val publishes the empty snapshot and raises no error, with
\* or without err; on an empty snapshot the same message with err is the one
\* that ends the collection with that err
C20_ClearShadowsErr ==
    [][ (step'.op = "event" /\ Live
         /\ ~Has(step'.data.old_val) /\ ~Has(step'.data.new_val))
            => /\ (value # <<>>)
                   => /\ value' = <<>>
                      /\ ~hasError' /\ thrownError' = thrownError
                      /\ observers' = observers
                      /\ delivered' = ToAll(observers, NextN(<<>>))
               /\ (value = <<>> /\ step'.data.err # NoErr)
                   => /\ hasError' /\ thrownError' = step'.data.err
                      /\ delivered' = ToAll(observers, ErrorN(step'.data.err))
      ]_vars

\* a message with err and neither old_val nor new_val was handled on a
\* non-empty snapshot: the observers got the empty snapshot and no error
C20_Witness ==
    /\ step.op = "event" /\ step.data.err # NoErr
    /\ ~Has(step.data.old_val) /\ ~Has(step.data.new_val)
    /\ result = Ok
    /\ Live
    /\ value = <<>>
    /\ \E n \in delivered : n.n = NextN(<<>>)

====
